---- MODULE Spec2Model ----
(***************************************************************************)
(* getbox: the Box container (src/src/index.ts).                           *)
(*                                                                         *)
(* A Box owns a Map from constructor identity to a cached instance.        *)
(* Box.new runs a constructor's creation logic, Box.get memoizes it,       *)
(* Box.mock force-writes an entry, Box.for(...).new/get resolve a list of  *)
(* constructors and build a target class from the results.                 *)
(*                                                                         *)
(* JavaScript is single threaded and every operation is synchronous, but   *)
(* creation logic is a callback that receives the box and calls back into  *)
(* it.  The model therefore keeps the call stack explicitly: one frame per *)
(* creation logic in progress.  A step of the model is what happens        *)
(* between two points where control enters or leaves creation logic.       *)
(***************************************************************************)
EXTENDS Integers, Sequences, FiniteSets, TLC

\* ---------------------------------------------------------------- bounds
\* New work is started from the application only while fewer than MaxInst
\* instances have been constructed.
MaxInst == 3
\* The engine's call stack holds at most MaxDepth creation logics.
MaxDepth == 5
\* A creation logic that can throw does so at most MaxFail times per box.
MaxFail == 1
\* The application calls Box.mock at most MaxMock times.
MaxMock == 1

\* ---------------------------------------------------------------- values
\* Values are tagged so that object identity is plain equality.
None == <<"none", 0>>
Inst(i) == <<"inst", i>>
MockVal(n) == <<"mock", n>>
ConstVal == <<"const", 3000>>

\* The values handed to Box.mock: the application makes a new mock object
\* for each call (MockVal(1), MockVal(2), ...), M's init uses MockVal(0).
IsMock(v) == v[1] = "mock"

IsInst(v) == v[1] = "inst"

\* ------------------------------------------------------------- producers
\* The constructors the application defines:
\*   S  a plain class, no init                      (SharedDependency)
\*   A  a class with static init(box): box.get(S)   (ClassA)
\*   B  a class with static init(box): box.get(S)   (ClassB)
\*   F  factory(box => ...) that resolves A through box.get and may throw
\*   M  factory(box => ...) that calls Box.mock(box, M, v) on itself
\*   K  constant(3000)
\*   X  factory(box => ...) that resolves S, then Y, through box.get
\*   Y  factory(box => ...) that resolves X through box.get
\*   R  factory(box => ...) that, depending on state of its own, calls
\*      box.get(R) before it returns
Producers == {"S", "A", "B", "F", "M", "K", "X", "Y", "R"}

\* An application defines some of them, with everything they depend on.
Universes == {{"S", "A", "B"}, {"S", "A", "F"}, {"S", "M"}, {"S", "K"}}

\* "init" in constructor
HasInit(p) == p \in {"A", "B", "F", "M", "K", "X", "Y", "R"}

\* constant(value): init ignores the box and returns the value itself.
IsConstant(p) == p = "K"

Call(op, q, v) == [op |-> op, q |-> q, v |-> v]

\* What init(box) of a producer does with the box, in order, before it
\* returns its value.
InitBody(p) ==
  CASE p = "A" -> <<Call("get", "S", None)>>
    [] p = "B" -> <<Call("get", "S", None)>>
    [] p = "F" -> <<Call("get", "A", None), Call("fail", "F", None)>>
    [] p = "M" -> <<Call("mock", "M", MockVal(0))>>
    [] p = "X" -> <<Call("get", "S", None), Call("get", "Y", None)>>
    [] p = "Y" -> <<Call("get", "X", None)>>
    [] p = "R" -> <<Call("maybe", "R", None)>>
    [] OTHER -> <<>>

\* Target classes of box.for(T) and the constructor lists they are given.
Targets == {"T"}
DepLists == {<<"S", "K">>, <<"S", "S">>, <<"A", "S">>}

\* private cache = new Map()
EmptyMap == [x \in {} |-> None]

VARIABLES
  app,     \* the constructors the application defines
  boxes,   \* the Box objects constructed
  cache,   \* cache[b]: the Map of box b, a function on the keys it has
  stack,   \* the call stack: creation logics and builders in progress
  heap,    \* heap[i]: class and constructor arguments of instance i
  ev,      \* what the last step did, as its caller observes it
  runs,    \* runs[b][p]: executions of p's creation logic started, by trigger
  calls,   \* calls[b][p]: calls of box.new(p) made by other code than Box.get
  fails,   \* fails[b][p]: executions of p's creation logic ended by a throw, by trigger
  first,   \* first[b][p]: what the first box.get(p) to return returned, or None
  mocks,   \* the number of Box.mock calls the application has made
  lastMock,\* lastMock[b][p]: the value of the latest Box.mock(b, p, _), or None
  preMock, \* preMock[b][p]: the first Box.mock(b, p, _) preceded every box.get(p)
  repl     \* repl[b][p]: the constructed instances a Box.mock(b, p, _) replaced

vars == <<app, boxes, cache, stack, heap, ev, runs, calls, fails, first, mocks,
          lastMock, preMock, repl>>

ghosts == <<runs, calls, fails, first, mocks, lastMock, preMock, repl>>

NoEv == [k |-> "none", op |-> "", b |-> 0, p |-> "", v |-> None, d |-> 0,
         hit |-> FALSE, pre |-> EmptyMap, unw |-> {}]

\* The first value box.get(p) returned stays on record.
Seen(b, p, v) == [first EXCEPT ![b][p] = IF @ = None THEN v ELSE @]


\* An event: k is "start" (creation logic entered), "ret" (a call returned v),
\* "mock", "pass" or "throw"; op the operation; d the depth of the caller
\* (0: the application); hit whether Box.get answered from the cache; pre
\* the Map of box b as it was when the call was made.
Event(k, op, b, p, v, d, hit, pre) ==
  [k |-> k, op |-> op, b |-> b, p |-> p, v |-> v, d |-> d, hit |-> hit,
   pre |-> pre, unw |-> {}]

Has(b, p) == p \in DOMAIN cache[b]

\* Map.set
MapSet(m, p, v) == (p :> v) @@ m

Top == stack[Len(stack)]

Frame(b, kind, p, via, prog) ==
  [b |-> b, kind |-> kind, p |-> p, via |-> via, prog |-> prog, pc |-> 1,
   args |-> <<>>, pre |-> cache[b]]

\* A caller that collects the values it is handed last first.
DeliverFront(stk, v) ==
  IF stk = <<>> THEN stk
  ELSE [stk EXCEPT ![Len(stk)].args = <<v>> \o @, ![Len(stk)].pc = @ + 1]

\* A value handed back to the caller: the application when the stack is
\* empty, otherwise the creation logic on top, which keeps it and goes on.
Deliver(stk, v) ==
  IF stk = <<>> THEN stk
  ELSE [stk EXCEPT ![Len(stk)].args = Append(@, v), ![Len(stk)].pc = @ + 1]

\* A call made for its effect only returns to its caller.
Resume(stk) ==
  IF stk = <<>> THEN stk ELSE [stk EXCEPT ![Len(stk)].pc = @ + 1]

\* The state after the application has defined the producers of one of the
\* universes us and constructed the boxes bs: every Map is empty.
InitWith(bs, us) ==
  /\ app \in us
  /\ boxes = bs
  /\ cache = [b \in boxes |-> EmptyMap]
  /\ stack = <<>>
  /\ heap = <<>>
  /\ ev = NoEv
  /\ runs = [b \in boxes |-> [p \in Producers |-> [get |-> 0, new |-> 0]]]
  /\ calls = [b \in boxes |-> [p \in Producers |-> 0]]
  /\ fails = [b \in boxes |-> [p \in Producers |-> [get |-> 0, new |-> 0]]]
  /\ first = [b \in boxes |-> [p \in Producers |-> None]]
  /\ mocks = 0
  /\ lastMock = [b \in boxes |-> [p \in Producers |-> None]]
  /\ preMock = [b \in boxes |-> [p \in Producers |-> FALSE]]
  /\ repl = [b \in boxes |-> [p \in Producers |-> {}]]

Init == InitWith({1}, Universes)

\* ------------------------------------------------------------ the Box
\* A Box.get that never finds its entry.
CacheHitNever(b, p) == FALSE

\* this.cache.has(constructor)
CacheHit(b, p) == Has(b, p)

\* Two producers are alike when they are the same kind of producer with the
\* same creation logic; they are still two objects, two keys of the Map.
Alike(p, q) ==
  /\ HasInit(p) = HasInit(q)
  /\ IsConstant(p) = IsConstant(q)
  /\ InitBody(p) = InitBody(q)

\* A Box.get whose Map compares keys by what they do: the value is stored
\* for every producer that is like p.
GetStoreByLogic(b, p, v) ==
  [cache EXCEPT ![b] =
     [q \in DOMAIN @ \cup {r \in app : Alike(p, r)} |->
        IF Alike(p, q) THEN v ELSE @[q]]]

\* A Box.get whose Map is one static Map shared by every Box.
GetStoreShared(b, p, v) == [c \in boxes |-> MapSet(cache[c], p, v)]

\* A Box.get that returns the new value without storing it.
GetStoreDropped(b, p, v) == cache

\* A Box.get that looks again before it stores and keeps an entry that
\* appeared while it was constructing.
GetStoreIfAbsent(b, p, v) ==
  IF Has(b, p) THEN cache ELSE [cache EXCEPT ![b] = MapSet(@, p, v)]

\* this.cache.set(constructor, value) at the end of Box.get
GetStore(b, p, v) == [cache EXCEPT ![b] = MapSet(@, p, v)]

\* A Box.new that keeps what it made.
NewStoreCaches(b, p, v) == [cache EXCEPT ![b] = MapSet(@, p, v)]

\* Box.new has no statement that touches this.cache
NewStore(b, p, v) == cache

\* A Box.mock that writes nowhere.
MockStoreDropped(b, p, v) == cache

\* A Box.mock that writes to the Map of every Box.
MockStoreShared(b, p, v) == [c \in boxes |-> MapSet(cache[c], p, v)]

\* A Box.mock that leaves an existing entry alone.
MockStoreIfAbsent(b, p, v) ==
  IF Has(b, p) THEN cache ELSE [cache EXCEPT ![b] = MapSet(@, p, v)]

\* A Box.mock that also drops the entries of the producers whose creation
\* logic resolves p, so that they are built again around v.
MockStoreEvictsDependents(b, p, v) ==
  [cache EXCEPT ![b] =
     [q \in (DOMAIN @ \cup {p}) \
              {r \in Producers :
                 /\ r # p
                 /\ \E i \in DOMAIN InitBody(r) :
                      InitBody(r)[i].op = "get" /\ InitBody(r)[i].q = p} |->
        IF q = p THEN v ELSE @[q]]]

\* box.cache.set(constructor, value) in Box.mock
MockStore(b, p, v) == [cache EXCEPT ![b] = MapSet(@, p, v)]

\* A Box.new that default-constructs whatever it is given.
NewFrameAlwaysCtor(b, p, kind) == Frame(b, kind, p, "ctor", <<>>)

\* "init" in constructor ? constructor.init(this) : new constructor()
NewFrame(b, p, kind) ==
  IF HasInit(p) THEN Frame(b, kind, p, "init", InitBody(p))
  ELSE Frame(b, kind, p, "ctor", <<>>)

\* Box.new entered: the creation logic of p starts; kind says whether
\* Box.get made the call ("get") or anyone else ("new").
BoxNew(b, p, kind) ==
  /\ stack' = Append(stack, NewFrame(b, p, kind))
  /\ runs' = [runs EXCEPT ![b][p][kind] = @ + 1]
  /\ ev' = Event("start", kind, b, p, None, Len(stack), FALSE, cache[b])
  /\ UNCHANGED <<app, boxes, cache, heap, fails, first, mocks, lastMock, preMock, repl>>

\* Box.get entered: a hit returns the entry at once, a miss calls this.new
\* and comes back in GetReturn.
BoxGet(b, p) ==
  IF CacheHit(b, p)
  THEN /\ stack' = Deliver(stack, cache[b][p])
       /\ first' = Seen(b, p, cache[b][p])
       /\ ev' = Event("ret", "get", b, p, cache[b][p], Len(stack), TRUE, cache[b])
       /\ UNCHANGED <<app, boxes, cache, heap, runs, calls, fails, mocks, lastMock,
                      preMock, repl>>
  ELSE /\ BoxNew(b, p, "get")
       /\ UNCHANGED calls

\* A Box.new that answers from the cache when it can.
CallNewCached(b, p) ==
  /\ calls' = [calls EXCEPT ![b][p] = @ + 1]
  /\ IF Has(b, p)
     THEN /\ stack' = Deliver(stack, cache[b][p])
          /\ ev' = Event("ret", "new", b, p, cache[b][p], Len(stack), TRUE, cache[b])
          /\ UNCHANGED <<app, boxes, cache, heap, runs, fails, first, mocks,
                         lastMock, preMock, repl>>
     ELSE BoxNew(b, p, "new")

\* box.new(p) called by the application, by creation logic or by a builder.
CallNew(b, p) ==
  /\ calls' = [calls EXCEPT ![b][p] = @ + 1]
  /\ BoxNew(b, p, "new")

\* Box.mock(box, constructor, value)
BoxMock(b, p, v) ==
  /\ cache' = MockStore(b, p, v)
  /\ stack' = Resume(stack)
  /\ lastMock' = [lastMock EXCEPT ![b][p] = v]
  /\ preMock' = [preMock EXCEPT ![b][p] =
                   IF lastMock[b][p] = None
                   THEN first[b][p] = None /\ runs[b][p].get = 0
                   ELSE @]
  /\ repl' = [repl EXCEPT ![b][p] =
                IF Has(b, p) /\ ~IsMock(cache[b][p])
                THEN @ \cup {cache[b][p]} ELSE @]
  /\ ev' = Event("mock", "mock", b, p, v, Len(stack), FALSE, cache[b])
  /\ UNCHANGED <<app, boxes, heap, runs, calls, fails, first>>

\* ------------------------------------------------ the application's calls
TopGet(b, p) ==
  /\ stack = <<>>
  /\ Has(b, p) \/ Len(heap) < MaxInst
  /\ BoxGet(b, p)

TopNew(b, p) ==
  /\ stack = <<>>
  /\ Len(heap) < MaxInst
  /\ calls[b][p] < MaxInst
  /\ CallNew(b, p)

TopMock(b, p) ==
  /\ stack = <<>>
  /\ mocks < MaxMock
  /\ mocks' = mocks + 1
  /\ BoxMock(b, p, MockVal(mocks + 1))

\* A builder that resolves through box.get whatever the method called.
ForOpAlwaysGet(mode) == "get"

\* A builder that resolves through box.new whatever the method called.
ForOpAlwaysNew(mode) == "new"

\* Construct.new maps with this.box.new(arg), Construct.get with
\* this.box.get(arg).
ForOp(mode) == mode

\* box.for(t).get(...deps) and box.for(t).new(...deps): Construct maps the
\* list through box.get or box.new, left to right, then builds the target.
TopFor(b, t, deps, mode) ==
  /\ stack = <<>>
  /\ \A i \in DOMAIN deps : deps[i] \in app
  /\ Len(heap) < MaxInst
  /\ stack' = <<Frame(b, "for" \o mode, t, "ctor",
                      [i \in 1..Len(deps) |-> Call(ForOp(mode), deps[i], None)])>>
  /\ ev' = Event("start", "for" \o mode, b, t, None, 0, FALSE, cache[b])
  /\ UNCHANGED <<app, boxes, cache, heap>>
  /\ UNCHANGED ghosts

\* -------------------------------------------- steps of code in progress
Running == stack # <<>> /\ Top.pc <= Len(Top.prog)

Cur == Top.prog[Top.pc]

\* Creation logic whose box.get(q) behaves as box.new(q).
StepGetTransient ==
  /\ Running
  /\ Cur.op = "get"
  /\ CallNew(Top.b, Cur.q)

\* box.get(q) inside creation logic, or args.map(arg => box.get(arg))
StepGet ==
  /\ Running
  /\ Cur.op = "get"
  /\ BoxGet(Top.b, Cur.q)

\* box.new(q) inside creation logic, or args.map(arg => box.new(arg))
StepNew ==
  /\ Running
  /\ Cur.op = "new"
  /\ CallNew(Top.b, Cur.q)

\* Box.mock(box, q, v) inside creation logic
StepMock ==
  /\ Running
  /\ Cur.op = "mock"
  /\ UNCHANGED mocks
  /\ BoxMock(Top.b, Cur.q, Cur.v)

\* Creation logic that can fail gets past the point where it can.
StepPass ==
  /\ Running
  /\ Cur.op = "fail"
  /\ stack' = [stack EXCEPT ![Len(stack)].pc = @ + 1]
  /\ ev' = Event("pass", "", Top.b, Top.p, None, Len(stack), FALSE, cache[Top.b])
  /\ UNCHANGED <<app, boxes, cache, heap>>
  /\ UNCHANGED ghosts

\* The executions of p's creation logic in progress in box b, by trigger.
InProg(b, p, kind) ==
  Cardinality({i \in DOMAIN stack :
                 stack[i].b = b /\ stack[i].p = p /\ stack[i].kind = kind})

\* A Box.get that records the failed attempt.
AbortStoreMemo == [cache EXCEPT ![Top.b] = MapSet(@, Top.p, None)]

\* A failure that puts the Map back as it was when the application made
\* the call that failed.
AbortStoreRollback == [cache EXCEPT ![Top.b] = stack[1].pre]

\* The exception skips this.cache.set in every Box.get it passes through.
AbortStore == cache

\* Creation logic throws.  Neither Box nor Construct has a try/catch, so the
\* exception leaves every frame on the stack and reaches the application.
StepThrow ==
  /\ Running
  /\ Cur.op = "fail"
  /\ fails[Top.b][Top.p].get + fails[Top.b][Top.p].new < MaxFail
  /\ stack' = <<>>
  /\ cache' = AbortStore
  /\ fails' = [b \in boxes |-> [p \in Producers |->
                 [get |-> fails[b][p].get + InProg(b, p, "get"),
                  new |-> fails[b][p].new + InProg(b, p, "new")]]]
  /\ ev' = [Event("throw", Top.kind, Top.b, Top.p, None, 0, FALSE, stack[1].pre)
              EXCEPT !.unw = {<<stack[i].kind, stack[i].p>> : i \in DOMAIN stack}]
  /\ UNCHANGED <<app, boxes, heap, runs, calls, first, mocks, lastMock, preMock, repl>>

Done == stack # <<>> /\ Top.pc > Len(Top.prog)

Rest == SubSeq(stack, 1, Len(stack) - 1)

Fresh == Inst(Len(heap) + 1)

\* A constant whose init makes a new object on each call.
ProductAlwaysFresh(f) == Fresh

\* What the creation logic on top returns: constant(value) returns the value,
\* a class or factory a newly constructed object.
Product(f) == IF IsConstant(f.p) THEN ConstVal ELSE Fresh

Alloc(f, v) ==
  IF v = Fresh THEN Append(heap, [cls |-> f.p, args |-> f.args]) ELSE heap

\* this.new returned inside Box.get: store the value and return it.
GetReturn ==
  /\ Done
  /\ Top.kind = "get"
  /\ LET v == Product(Top)
     IN /\ heap' = Alloc(Top, v)
        /\ cache' = GetStore(Top.b, Top.p, v)
        /\ stack' = Deliver(Rest, v)
        /\ first' = Seen(Top.b, Top.p, v)
        /\ ev' = Event("ret", "get", Top.b, Top.p, v, Len(Rest), FALSE, Top.pre)
  /\ UNCHANGED <<app, boxes, runs, calls, fails, mocks, lastMock, preMock, repl>>

\* Box.new returns what the creation logic returned.
NewReturn ==
  /\ Done
  /\ Top.kind = "new"
  /\ LET v == Product(Top)
     IN /\ heap' = Alloc(Top, v)
        /\ cache' = NewStore(Top.b, Top.p, v)
        /\ stack' = Deliver(Rest, v)
        /\ ev' = Event("ret", "new", Top.b, Top.p, v, Len(Rest), FALSE, Top.pre)
  /\ UNCHANGED <<app, boxes>>
  /\ UNCHANGED ghosts

\* return new this.construct(...instances)
ForReturn ==
  /\ Done
  /\ Top.kind \in {"forget", "fornew"}
  /\ heap' = Append(heap, [cls |-> Top.p, args |-> Top.args])
  /\ stack' = Deliver(Rest, Fresh)
  /\ ev' = Event("ret", Top.kind, Top.b, Top.p, Fresh, Len(Rest), FALSE, Top.pre)
  /\ UNCHANGED <<app, boxes, cache>>
  /\ UNCHANGED ghosts

Next ==
  \/ \E b \in boxes, p \in app : TopGet(b, p)
  \/ \E b \in boxes, p \in app : TopNew(b, p)
  \/ \E b \in boxes, p \in app : TopMock(b, p)
  \/ \E b \in boxes, t \in Targets, deps \in DepLists, mode \in {"get", "new"} :
       TopFor(b, t, deps, mode)
  \/ StepGet
  \/ StepNew
  \/ StepMock
  \/ StepPass
  \/ StepThrow
  \/ GetReturn
  \/ NewReturn
  \/ ForReturn

Spec == Init /\ [][Next]_vars

\* ------------------------------------------------------------- claims
IsGetRet(e, b, p) == e.k = "ret" /\ e.op = "get" /\ e.b = b /\ e.p = p

\* C1: on a box where p was never overridden, every box.get(p) returns the
\* value the first one returned, which is the entry of p; and when no
\* execution of p's creation logic has failed and box.new(p) was never
\* called, the creation logic has run exactly once in total as soon as a
\* box.get(p) has returned.
C1_GetIdempotent ==
  \A b \in boxes, p \in app :
    lastMock[b][p] = None =>
      /\ IsGetRet(ev, b, p) => ev.v = first[b][p]
      /\ first[b][p] # None =>
           /\ Has(b, p) /\ cache[b][p] = first[b][p]
           /\ (fails[b][p].get = 0 /\ calls[b][p] = 0) =>
                runs[b][p].get + runs[b][p].new = 1

\* A second box.get(p) of the application returned the constructed instance.
C1_Witness ==
  /\ ev.k = "ret" /\ ev.op = "get" /\ ev.hit /\ ev.d = 0 /\ IsInst(ev.v)
  /\ lastMock[ev.b][ev.p] = None
  /\ runs[ev.b][ev.p].get = 1
  /\ calls[ev.b][ev.p] = 0

\* C2, as stated: whatever the operations, box.get has started p's creation
\* logic at most once.
C2_AtMostOneRun ==
  \A b \in boxes, p \in app : runs[b][p].get <= 1

\* C2, amended: box.get has run p's creation logic to completion at most
\* once, and never has two executions of it in progress; an execution that
\* threw left no entry, so box.get starts the logic once more per failure.
C2_AtMostOneCompletion ==
  \A b \in boxes, p \in app :
    /\ InProg(b, p, "get") <= 1
    /\ runs[b][p].get - fails[b][p].get - InProg(b, p, "get") <= 1
    /\ runs[b][p].get <= 1 + fails[b][p].get

\* box.get(F) threw, was called again and then completed.
C2_Witness ==
  \E b \in boxes, p \in app :
    /\ runs[b][p].get = 2 /\ fails[b][p].get = 1
    /\ Has(b, p) /\ IsInst(cache[b][p])

\* C3, as stated: once p has an entry, the entry stays what it is whatever
\* happens next.
C3_EntryNeverChanges ==
  [][\A b \in boxes, p \in app :
       Has(b, p) => Has(b, p)' /\ cache'[b][p] = cache[b][p]]_vars

\* C3, amended: an entry is never removed; box.get(p) returns the entry; the
\* entry changes only when Box.mock(b, p, _) replaces it, or when a
\* box.get(p) that was under construction when a mock was installed completes
\* and stores its instance over the mock.
C3_EntryStable ==
  [][\A b \in boxes, p \in app :
       Has(b, p) =>
         /\ Has(b, p)'
         /\ cache'[b][p] # cache[b][p] =>
              \/ ev'.k = "mock" /\ ev'.b = b /\ ev'.p = p
              \/ IsGetRet(ev', b, p) /\ ~ev'.hit /\ IsMock(cache[b][p])
         /\ IsGetRet(ev', b, p) => ev'.v = cache'[b][p]]_vars

\* An unrelated operation ran between two box.get(p) that returned the same
\* constructed instance.
C3_Witness ==
  /\ ev.k = "ret" /\ ev.op = "get" /\ ev.hit /\ ev.d = 0 /\ IsInst(ev.v)
  /\ \E q \in app : q # ev.p /\ calls[ev.b][q] > 0 /\ lastMock[ev.b][q] # None

\* The creation logic of p calls neither box.get nor Box.mock.
NoCacheCalls(p) ==
  \A i \in DOMAIN InitBody(p) : InitBody(p)[i].op \notin {"get", "mock"}

\* The creation logic of p overrides p itself.
OverridesItself(p) ==
  \E i \in DOMAIN InitBody(p) :
    InitBody(p)[i].op = "mock" /\ InitBody(p)[i].q = p

\* The creation logic of p never calls Box.mock.
NoMockCalls(p) ==
  \A i \in DOMAIN InitBody(p) : InitBody(p)[i].op # "mock"

\* C4, as stated: when box.new(p) returns, the Map is what it was when the
\* call was made (stated here for the producers that override nothing).
C4_CacheSameAfterNew ==
  (ev.k = "ret" /\ ev.op = "new" /\ NoMockCalls(ev.p)) => cache[ev.b] = ev.pre

\* C4, amended: entering and leaving Box.new never changes the Map; the Map
\* changes only in a Box.mock or in a Box.get that stores what it built, so
\* after box.new(p) it differs from before only by what p's creation logic
\* did through those calls, and is identical when the logic makes none.
\* When the logic does not override p, an entry p had before the call is
\* still there, unchanged, and is not the value returned unless p is a
\* constant.
C4_NewLeavesCache ==
  /\ [](ev.k = "ret" /\ ev.op = "new" =>
          /\ NoCacheCalls(ev.p) => cache[ev.b] = ev.pre
          /\ (ev.p \in DOMAIN ev.pre /\ ~OverridesItself(ev.p)) =>
               /\ Has(ev.b, ev.p)
               /\ cache[ev.b][ev.p] = ev.pre[ev.p]
               /\ ~IsConstant(ev.p) => ev.v # cache[ev.b][ev.p])
  /\ [][/\ (ev'.op = "new" /\ ev'.k \in {"start", "ret"}) => cache' = cache
        /\ cache' # cache =>
             \/ ev'.k = "mock"
             \/ ev'.k = "ret" /\ ev'.op = "get" /\ ~ev'.hit]_vars

\* The application's second box.new(p) returned while p had a constructed
\* instance in the cache.
C4_Witness ==
  /\ ev.k = "ret" /\ ev.op = "new" /\ ev.d = 0
  /\ calls[ev.b][ev.p] = 2
  /\ ev.p \in DOMAIN ev.pre /\ IsInst(ev.pre[ev.p])
  /\ cache[ev.b] = ev.pre

\* C5: every call of box.new(p) runs p's creation logic once, cached or not
\* (as many executions as calls), and for a producer that is not a constant
\* the value returned is an object that did not exist before the return, so
\* no two calls return the same one.
C5_NewAlwaysConstructs ==
  /\ [](\A b \in boxes, p \in app : runs[b][p].new = calls[b][p])
  /\ [][(ev'.k = "ret" /\ ev'.op = "new" /\ ~IsConstant(ev'.p)) =>
          /\ IsInst(ev'.v)
          /\ ev'.v[2] = Len(heap) + 1
          /\ Len(heap') = Len(heap) + 1
          /\ heap'[Len(heap')].cls = ev'.p]_vars

\* box.new(p) returned for the second time, with p cached.
C5_Witness ==
  /\ ev.k = "ret" /\ ev.op = "new" /\ ~IsConstant(ev.p)
  /\ calls[ev.b][ev.p] = 2 /\ runs[ev.b][ev.p].new = 2
  /\ Has(ev.b, ev.p)

\* C6: when the first Box.mock(b, p, _) came before any box.get(p), box.get
\* has never run p's creation logic, and every box.get(p), nested ones
\* included, is answered from the cache with the value of the latest
\* Box.mock(b, p, _).
C6_MockBeforeGet ==
  \A b \in boxes, p \in app :
    preMock[b][p] =>
      /\ runs[b][p].get = 0
      /\ IsMock(lastMock[b][p])
      /\ Has(b, p) /\ cache[b][p] = lastMock[b][p]
      /\ IsGetRet(ev, b, p) => ev.hit /\ ev.v = lastMock[b][p]
      /\ first[b][p] # None => IsMock(first[b][p])

\* Creation logic of another producer got the mock from box.get(p).
C6_Witness ==
  /\ ev.k = "ret" /\ ev.op = "get" /\ ev.d > 0
  /\ preMock[ev.b][ev.p]
  /\ ev.v = lastMock[ev.b][ev.p]
  /\ stack[ev.d].kind \in {"get", "new"} /\ stack[ev.d].p # ev.p

\* C7: when Box.mock(b, p, _) replaced an instance that box.get(p) had
\* cached, the entry is the latest mock value, box.get(p) returns it and
\* never the replaced instance, and box.get never runs p's creation logic
\* again.
C7_MockAfterGet ==
  /\ [](\A b \in boxes, p \in app :
          repl[b][p] # {} =>
            /\ Has(b, p) /\ cache[b][p] = lastMock[b][p]
            /\ cache[b][p] \notin repl[b][p]
            /\ IsGetRet(ev, b, p) =>
                 ev.hit /\ ev.v = lastMock[b][p] /\ ev.v \notin repl[b][p])
  /\ [][\A b \in boxes, p \in app :
          repl[b][p] # {} => runs'[b][p].get = runs[b][p].get]_vars

\* box.get(p) returned the mock that replaced p's cached instance.
C7_Witness ==
  /\ ev.k = "ret" /\ ev.op = "get" /\ ev.hit
  /\ \E v \in repl[ev.b][ev.p] : IsInst(v) /\ first[ev.b][ev.p] = v
  /\ ev.v = lastMock[ev.b][ev.p]

\* C8, as stated: once Box.mock(b, p, _) has been applied, no operation
\* starts p's creation logic.
C8_NeverRunOnceMocked ==
  [][\A b \in boxes, p \in app :
       lastMock[b][p] # None => runs'[b][p] = runs[b][p]]_vars

\* C8, amended: once Box.mock(b, p, _) has been applied, box.get (called
\* directly, from creation logic or by box.for(t).get) never starts p's
\* creation logic; box.new and box.for(t).new still run it on every call.
C8_GetNeverRunsOnceMocked ==
  [][\A b \in boxes, p \in app :
       lastMock[b][p] # None =>
         /\ runs'[b][p].get = runs[b][p].get
         /\ calls'[b][p] # calls[b][p] =>
              runs'[b][p].new = runs[b][p].new + 1]_vars

\* box.for(t).get built its target around the mock of a producer that never
\* ran for box.get, although box.new ran it after the mock was installed.
C8_Witness ==
  /\ ev.k = "ret" /\ ev.op = "forget"
  /\ \E p \in app :
       /\ IsMock(lastMock[ev.b][p])
       /\ \E i \in DOMAIN heap[Len(heap)].args :
            heap[Len(heap)].args[i] = lastMock[ev.b][p]
       /\ runs[ev.b][p].get = 0
       /\ runs[ev.b][p].new > 0
       /\ preMock[ev.b][p]

\* C9: a throw inside creation logic leaves every call in progress without
\* a return value and reaches the application, the Map is left as it was, p
\* has no entry for any box.get(p) the exception passed through, and when the
\* application's next call is box.get(p) it starts p's creation logic again.
C9_FailureNotMemoized ==
  [][/\ (ev'.k = "throw" /\ stack # <<>>) =>
          /\ stack' = <<>>
          /\ cache' = cache
          /\ \A u \in ev'.unw : u[1] = "get" => u[2] \notin DOMAIN cache'[ev'.b]
          /\ <<ev'.op, ev'.p>> \in ev'.unw
     /\ \A p \in app :
          (/\ ev.k = "throw" /\ <<"get", p>> \in ev.unw
           /\ stack = <<>> /\ ev'.d = 0
           /\ ev'.op = "get" /\ ev'.p = p /\ ev'.b = ev.b
           /\ ev'.k \in {"start", "ret"}) =>
             /\ ev'.k = "start"
             /\ runs'[ev.b][p].get = runs[ev.b][p].get + 1]_vars

\* The application called box.get(p) again after it threw, and the creation
\* logic started again.
C9_Witness ==
  /\ ev.k = "start" /\ ev.op = "get" /\ ev.d = 0
  /\ fails[ev.b][ev.p].get > 0
  /\ runs[ev.b][ev.p].get = fails[ev.b][ev.p].get + 1
  /\ ~Has(ev.b, ev.p)

\* The positions of p's creation logic that resolve a producer by box.get.
GetDeps(p) == {i \in DOMAIN InitBody(p) : InitBody(p)[i].op = "get"}

\* Where the value resolved at position i ends up among the arguments.
ArgIx(p, i) ==
  Cardinality({j \in 1..i : InitBody(p)[j].op \in {"get", "new"}})

\* The entry of p is an instance of p that box.get constructed.
Built(b, p) ==
  /\ Has(b, p) /\ IsInst(cache[b][p])
  /\ heap[cache[b][p][2]].cls = p

Held(b, p, i) == heap[cache[b][p][2]].args[ArgIx(p, i)]

\* C10: when two distinct producers that each resolve q by box.get in their
\* creation logic both have their constructed instance cached, and q was
\* never overridden, both instances hold the entry of q, which is what
\* box.get(q) returns, and box.get ran q's creation logic to completion once.
C10_SharedDependency ==
  \A b \in boxes, p1 \in app, p2 \in app :
    \A i1 \in GetDeps(p1), i2 \in GetDeps(p2) :
      LET q == InitBody(p1)[i1].q IN
        (/\ p1 # p2 /\ InitBody(p2)[i2].q = q
         /\ Built(b, p1) /\ Built(b, p2)
         /\ lastMock[b][q] = None) =>
           /\ Has(b, q)
           /\ Held(b, p1, i1) = cache[b][q]
           /\ Held(b, p2, i2) = cache[b][q]
           /\ IsGetRet(ev, b, q) => ev.v = cache[b][q]
           /\ runs[b][q].get = 1 + fails[b][q].get

\* A and B are cached and the application fetched S directly.
C10_Witness ==
  /\ ev.k = "ret" /\ ev.op = "get" /\ ev.d = 0 /\ ev.p = "S" /\ ev.hit
  /\ Built(ev.b, "A") /\ Built(ev.b, "B")
  /\ lastMock[ev.b]["S"] = None
  /\ Held(ev.b, "A", 1) = ev.v /\ Held(ev.b, "B", 1) = ev.v

\* The producers the creation logic of p resolves through the box.
Uses(p) ==
  {InitBody(p)[i].q :
     i \in {j \in DOMAIN InitBody(p) : InitBody(p)[j].op \in {"get", "new"}}}

\* Everything reachable from ps along such calls, in at most n rounds.
RECURSIVE Reaches(_, _)
Reaches(ps, n) ==
  IF n = 0 THEN ps ELSE Reaches(ps \cup UNION {Uses(p) : p \in ps}, n - 1)

\* The producers that resolving p may leave in the cache although p itself
\* is resolved by box.new: those some creation logic on the way asks
\* box.get for.
CachedBy(p) ==
  UNION {{InitBody(r)[i].q : i \in GetDeps(r)} :
           r \in Reaches({p}, Cardinality(Producers))}

\* A builder of box.for(t).new has resolved its whole list and is about to
\* construct the target.
ForNewReady == Done /\ Top.kind = "fornew"

ForGetReady == Done /\ Top.kind = "forget"

\* C12: box.for(t).get returns an object that is newer than every other and
\* never has an entry; each argument it resolved is the entry of its
\* producer, which is what box.get returns for it; while the producer is not
\* overridden that is the value the first box.get of it returned, the same
\* for every builder, and box.get has completed the producer's creation
\* logic exactly once.
C12_ForGetShared ==
  /\ \A b \in boxes, t \in Targets : ~Has(b, t)
  /\ ForGetReady =>
       /\ Len(Top.args) = Len(Top.prog)
       /\ \A i \in DOMAIN Top.prog :
            LET q == Top.prog[i].q IN
              /\ Has(Top.b, q) /\ Top.args[i] = cache[Top.b][q]
              /\ lastMock[Top.b][q] = None =>
                   /\ Top.args[i] = first[Top.b][q]
                   /\ runs[Top.b][q].get - fails[Top.b][q].get = 1
              /\ \A j \in DOMAIN Top.prog :
                   Top.prog[j].q = q => Top.args[j] = Top.args[i]
  /\ (ev.k = "ret" /\ ev.op = "forget") =>
       /\ ev.v = Inst(Len(heap)) /\ heap[Len(heap)].cls = ev.p
       /\ \A q \in DOMAIN cache[ev.b] : cache[ev.b][q] # ev.v
       /\ \A i \in 1..(Len(heap) - 1) :
            \A j \in DOMAIN heap[i].args : heap[i].args[j] # ev.v

\* box.for(t).get returned a second target, another object than the first
\* but around the very same constructed instances, which are the entries.
C12_Witness ==
  /\ ev.k = "ret" /\ ev.op = "forget"
  /\ LET a == heap[Len(heap)].args IN
       /\ Len(a) = 2
       /\ \A i \in 1..2 : IsInst(a[i]) /\ a[i] = cache[ev.b][heap[a[i][2]].cls]
       /\ \E n \in 1..(Len(heap) - 1) :
            /\ heap[n].cls \in Targets /\ heap[n].args = a
            /\ Inst(n) # ev.v
  /\ \A q \in app : lastMock[ev.b][q] = None /\ runs[ev.b][q].get <= 1

\* C13: every instance of a producer p whose creation logic resolves q by
\* box.get, whether box.new(p) or box.get(p) constructed it, holds the entry
\* of q, which is the value box.get(q) first returned, as long as q is not
\* overridden; and each box.new(p) returns an object that is newer than
\* every other.
C13_TransientSharesCached ==
  /\ \A b \in boxes, n \in DOMAIN heap :
       LET p == heap[n].cls IN
         p \in app =>
           \A i \in GetDeps(p) :
             LET q == InitBody(p)[i].q IN
               lastMock[b][q] = None =>
                 /\ Has(b, q)
                 /\ heap[n].args[ArgIx(p, i)] = cache[b][q]
                 /\ cache[b][q] = first[b][q]
  /\ (ev.k = "ret" /\ ev.op = "new" /\ GetDeps(ev.p) # {}) =>
       /\ ev.v = Inst(Len(heap)) /\ heap[Len(heap)].cls = ev.p
       /\ Has(ev.b, ev.p) => cache[ev.b][ev.p] # ev.v

\* box.new(A) returned after box.get(A) had cached another instance: two
\* instances of A, both holding the entry of S.
C13_Witness ==
  /\ ev.k = "ret" /\ ev.op = "new" /\ ev.d = 0 /\ GetDeps(ev.p) # {}
  /\ calls[ev.b][ev.p] = 1
  /\ Built(ev.b, ev.p)
  /\ LET q == InitBody(ev.p)[1].q IN
       /\ lastMock[ev.b][q] = None /\ IsInst(cache[ev.b][q])
       /\ Cardinality({n \in DOMAIN heap :
                         /\ heap[n].cls = ev.p
                         /\ heap[n].args = <<cache[ev.b][q]>>}) = 2

\* C14: producers are separate keys however alike they are.  A box.get or
\* Box.mock of p leaves every other producer with the same creation logic as
\* it was when the call was made, with the same entry or with none; and when
\* box.get constructed both, the two entries are two objects from two
\* executions.
C14_KeyedByIdentity ==
  \A b \in boxes, p \in app, q \in app :
    (p # q /\ Alike(p, q)) =>
      /\ (/\ ev.k \in {"ret", "mock"} /\ ev.op \in {"get", "mock"}
          /\ ev.b = b /\ ev.p = p) =>
           /\ Has(b, q) <=> q \in DOMAIN ev.pre
           /\ Has(b, q) => cache[b][q] = ev.pre[q]
      /\ (Built(b, p) /\ Built(b, q)) =>
           /\ cache[b][p] # cache[b][q]
           /\ runs[b][p].get >= 1 /\ runs[b][q].get >= 1

\* ClassA and ClassB, alike, each have their own cached instance; ClassA was
\* then overridden and box.get(ClassB) still returns ClassB's instance.
C14_Witness ==
  /\ ev.k = "ret" /\ ev.op = "get" /\ ev.hit /\ ev.d = 0
  /\ \E q \in app :
       /\ q # ev.p /\ Alike(ev.p, q)
       /\ IsInst(first[ev.b][q]) /\ IsMock(cache[ev.b][q])
       /\ IsInst(ev.v) /\ ev.v = first[ev.b][ev.p] /\ ev.v # first[ev.b][q]
       /\ heap[ev.v[2]].cls = ev.p

\* C15: every box.new of a constant producer returns the wrapped value, and
\* so does every box.get of it and its entry unless the producer has been
\* overridden; both builders pass that value at the position of the
\* producer; no object is ever constructed for it.
C15_ConstantYieldsValue ==
  /\ \A n \in DOMAIN heap : ~IsConstant(heap[n].cls)
  /\ \A b \in boxes, p \in app :
       IsConstant(p) =>
         /\ (ev.k = "ret" /\ ev.op = "new" /\ ev.b = b /\ ev.p = p) =>
              ev.v = ConstVal
         /\ lastMock[b][p] = None =>
              /\ IsGetRet(ev, b, p) => ev.v = ConstVal
              /\ Has(b, p) => cache[b][p] = ConstVal
  /\ (ForNewReady \/ ForGetReady) =>
       \A i \in DOMAIN Top.prog :
         (/\ IsConstant(Top.prog[i].q)
          /\ ForGetReady => lastMock[Top.b][Top.prog[i].q] = None) =>
            Top.args[i] = ConstVal

\* box.for(t).new(S, K) built its target around the value of the constant
\* after box.get(K) and box.new(K) had both returned it.
C15_Witness ==
  /\ ev.k = "ret" /\ ev.op = "fornew"
  /\ \E p \in app :
       /\ IsConstant(p)
       /\ first[ev.b][p] = ConstVal /\ cache[ev.b][p] = ConstVal
       /\ calls[ev.b][p] = 2 /\ runs[ev.b][p].new = 2
  /\ Len(heap[Len(heap)].args) = 2
  /\ heap[Len(heap)].args[2] = ConstVal

\* C16, as stated: when a box.get(p) that had to construct returns and
\* Box.mock(b, p, V) was called meanwhile, the entry of p is V.
C16_OverrideSurvivesGet ==
  (/\ ev.k = "ret" /\ ev.op = "get" /\ ~ev.hit
   /\ lastMock[ev.b][ev.p] # None) =>
     cache[ev.b][ev.p] = lastMock[ev.b][ev.p]

\* C16, amended: Box.mock(b, p, V) always writes: right after it the entry
\* of p is V.  A box.get(p) that had to construct stores what it built when
\* it returns, also over a V installed meanwhile, so the entry is then the
\* value it returned and later calls of box.get(p) return that value.  The
\* entry differs from the latest V only in this way: the first override came
\* after a box.get(p) had started, it replaced no constructed instance, and
\* the entry is what that box.get(p) returned.
C16_OverrideThenGetStores ==
  /\ ev.k = "mock" => Has(ev.b, ev.p) /\ cache[ev.b][ev.p] = ev.v
  /\ (ev.k = "ret" /\ ev.op = "get") =>
       /\ Has(ev.b, ev.p) /\ cache[ev.b][ev.p] = ev.v
       /\ ~ev.hit => ~IsMock(ev.v)
  /\ \A b \in boxes, p \in app :
       lastMock[b][p] # None =>
         /\ Has(b, p) \/ InProg(b, p, "get") > 0
         /\ (Has(b, p) /\ cache[b][p] # lastMock[b][p]) =>
              /\ ~preMock[b][p] /\ repl[b][p] = {}
              /\ runs[b][p].get >= 1
              /\ ~IsMock(cache[b][p]) /\ cache[b][p] = first[b][p]

\* The application's next box.get(p) returned the instance that the first
\* box.get(p) built, not the value p's creation logic had installed with
\* Box.mock during that construction.
C16_Witness ==
  /\ ev.k = "ret" /\ ev.op = "get" /\ ev.hit /\ ev.d = 0
  /\ OverridesItself(ev.p)
  /\ IsMock(lastMock[ev.b][ev.p])
  /\ IsInst(ev.v) /\ heap[ev.v[2]].cls = ev.p
  /\ mocks = 0

\* ------------------------------------------------ builders and arity
\* class App { constructor(serviceA, serviceB) }: the parameters the target
\* declares.
Arity(t) == 2

\* Constructor lists of every length around that, one with a producer at two
\* positions and one whose first producer depends on the second.
ArityLists == {<<"S">>, <<"S", "S">>, <<"A", "S">>, <<"S", "A", "S">>}

InitFor == InitWith({1}, {{"S", "A", "B"}})

NextFor ==
  \/ \E b \in boxes, p \in app : TopGet(b, p)
  \/ \E b \in boxes, t \in Targets, deps \in ArityLists, mode \in {"get", "new"} :
       TopFor(b, t, deps, mode)
  \/ StepGet
  \/ StepNew
  \/ GetReturn
  \/ NewReturn
  \/ ForReturn

\* An application that only fetches and builds.
SpecFor == InitFor /\ [][NextFor]_vars

\* v is something a resolution of q can yield.
YieldOf(b, q, v) ==
  \/ IsConstant(q) /\ v = ConstVal
  \/ IsInst(v) /\ v[2] \in DOMAIN heap /\ heap[v[2]].cls = q
  \/ IsMock(v) /\ v = lastMock[b][q]

\* C17: a builder has resolved exactly the positions before the one it is
\* at, each by the method of the builder, and keeps the value of position j
\* at place j; the call in progress above it resolves the producer at its
\* current position; a producer at two positions has yielded two different
\* new instances under new, ever newer from left to right, and the same
\* instance under get; once the list is resolved the target is constructed
\* whatever the length of the list, with the values in that order.
C17_ForPositional ==
  /\ \A n \in DOMAIN stack :
       LET f == stack[n] IN
         f.kind \in {"forget", "fornew"} =>
           /\ Len(f.args) = f.pc - 1 /\ f.pc <= Len(f.prog) + 1
           /\ \A j \in DOMAIN f.prog :
                f.prog[j].op = (IF f.kind = "forget" THEN "get" ELSE "new")
           /\ \A j \in DOMAIN f.args : YieldOf(f.b, f.prog[j].q, f.args[j])
           /\ n < Len(stack) =>
                /\ f.pc <= Len(f.prog)
                /\ stack[n + 1].p = f.prog[f.pc].q
                /\ stack[n + 1].kind = f.prog[f.pc].op
           /\ \A i \in DOMAIN f.args, j \in DOMAIN f.args :
                i < j =>
                  /\ (f.kind = "fornew" /\ IsInst(f.args[i]) /\ IsInst(f.args[j])) =>
                       f.args[i][2] < f.args[j][2]
                  /\ (f.kind = "forget" /\ f.prog[i].q = f.prog[j].q) =>
                       f.args[i] = f.args[j]
  /\ (ForNewReady \/ ForGetReady) => ENABLED ForReturn
  /\ (ev.k = "ret" /\ ev.op \in {"forget", "fornew"}) =>
       /\ heap[Len(heap)].cls = ev.p
       /\ \A j \in DOMAIN heap[Len(heap)].args :
            \E q \in app : YieldOf(ev.b, q, heap[Len(heap)].args[j])

\* box.for(t).new(S, A, S) built a target that declares two parameters
\* around three values: a new S, a new A and another new S, in that order.
C17_Witness ==
  /\ ev.k = "ret" /\ ev.op = "fornew"
  /\ LET a == heap[Len(heap)].args IN
       /\ Len(a) = 3 /\ Len(a) # Arity(ev.p)
       /\ \A j \in 1..3 : IsInst(a[j])
       /\ heap[a[1][2]].cls = "S" /\ heap[a[2][2]].cls = "A"
       /\ heap[a[3][2]].cls = "S"
       /\ a[1] # a[3]

\* ---------------------------------------------------------- two boxes
InitTwo == InitWith({1, 2}, {{"S", "A", "K"}})

NextTwo ==
  \/ \E b \in boxes, p \in app : TopGet(b, p)
  \/ \E b \in boxes, p \in app : TopNew(b, p)
  \/ StepGet
  \/ GetReturn
  \/ NewReturn

\* An application that fetches and creates from two boxes.
SpecTwo == InitTwo /\ [][NextTwo]_vars

\* C18: creation logic in progress is init exactly when the producer has an
\* init, whether box.new or box.get started it; init was given the box the
\* operation was called on and its own calls go to that box, so what it
\* resolved by box.get is the entry of that box; a producer without init is
\* constructed with no arguments, and an instance of a producer with init
\* holds what init resolved, so it was not default-constructed.
C18_Dispatch ==
  /\ \A n \in DOMAIN stack :
       LET f == stack[n] IN
         f.kind \in {"get", "new"} =>
           /\ f.via = "init" <=> HasInit(f.p)
           /\ f.via = "init" => f.prog = InitBody(f.p)
           /\ f.via = "ctor" => f.prog = <<>> /\ f.args = <<>>
           /\ n > 1 => f.b = stack[n - 1].b
  /\ ev.k = "start" => Top.b = ev.b /\ Top.p = ev.p /\ Top.kind = ev.op
  /\ \A n \in DOMAIN heap :
       LET p == heap[n].cls IN
         p \in app =>
           IF HasInit(p)
           THEN Len(heap[n].args) = ArgIx(p, Len(InitBody(p)))
           ELSE heap[n].args = <<>>
  /\ \A b \in boxes, p \in app :
       Built(b, p) =>
         \A i \in GetDeps(p) :
           /\ Has(b, InitBody(p)[i].q)
           /\ Held(b, p, i) = cache[b][InitBody(p)[i].q]
  /\ (ev.k = "ret" /\ ev.op = "new" /\ IsInst(ev.v)) =>
       \A i \in GetDeps(ev.p) :
         heap[ev.v[2]].args[ArgIx(ev.p, i)] = cache[ev.b][InitBody(ev.p)[i].q]

\* The first box has cached its ClassA around its SharedDependency, and
\* box.new(ClassA) on the second box returned a ClassA holding the second
\* box's SharedDependency, which init cached there.
C18_Witness ==
  /\ ev.k = "ret" /\ ev.op = "new" /\ ev.b = 2 /\ HasInit(ev.p) /\ IsInst(ev.v)
  /\ GetDeps(ev.p) # {}
  /\ Built(1, ev.p)
  /\ LET q == InitBody(ev.p)[1].q IN
       /\ Has(2, q) /\ cache[2][q] # cache[1][q]
       /\ heap[ev.v[2]].args = <<cache[2][q]>>
       /\ Held(1, ev.p, 1) = cache[1][q]
       /\ ~HasInit(q) /\ heap[cache[2][q][2]].args = <<>>

\* C19: no step of any operation takes a key out of the Map of a box: a
\* producer that has an entry before a step has one after it.
C19_EntriesOnlyGrow ==
  [][\A b \in boxes : DOMAIN cache[b] \subseteq DOMAIN cache'[b]]_vars

\* A construction failed after its dependencies had been cached during the
\* same call, and after an override: their entries are all still there.
C19_Witness ==
  /\ ev.k = "throw" /\ stack = <<>>
  /\ \E p \in app : Has(ev.b, p) /\ p \notin DOMAIN ev.pre
  /\ \E p \in app : Has(ev.b, p) /\ IsMock(cache[ev.b][p])

\* ------------------------------------------------- circular dependencies
\* p is among the producers its own creation logic leads to.
OnCycle(p) == p \in Reaches(Uses(p), Cardinality(Producers))

\* No producer that resolving p leads to is on a cycle.
Acyclic(p) ==
  \A q \in Reaches({p}, Cardinality(Producers)) : ~OnCycle(q)

InitCycle == InitWith({1}, {{"S", "A", "X", "Y"}})

\* Box.get has no record of the constructions in progress, so a producer on
\* a cycle is entered again and again until the engine has no room for
\* another call; its RangeError leaves every frame, as any exception does.
Overflow ==
  /\ Running
  /\ Cur.op = "get"
  /\ ~CacheHit(Top.b, Cur.q)
  /\ Len(stack) >= MaxDepth
  /\ stack' = <<>>
  /\ cache' = AbortStore
  /\ fails' = [b \in boxes |-> [p \in Producers |->
                 [get |-> fails[b][p].get + InProg(b, p, "get"),
                  new |-> fails[b][p].new + InProg(b, p, "new")]]]
  /\ ev' = [Event("throw", Top.kind, Top.b, Top.p, None, 0, FALSE, stack[1].pre)
              EXCEPT !.unw = {<<stack[i].kind, stack[i].p>> : i \in DOMAIN stack}]
  /\ UNCHANGED <<app, boxes, heap, runs, calls, first, mocks, lastMock, preMock, repl>>

\* What code in progress does next.
StepsCycle ==
  \/ StepGet /\ Len(stack') <= MaxDepth
  \/ GetReturn
  \/ Overflow

NextCycle ==
  \/ \E b \in boxes, p \in app : fails[b][p].get < MaxDepth /\ TopGet(b, p)
  \/ StepsCycle

\* An application with a dependency cycle.  JavaScript runs a call to its
\* end before anything else happens, so code in progress always takes its
\* next step.
SpecCycle == InitCycle /\ [][NextCycle]_vars /\ WF_vars(StepsCycle)

\* C20: a box.get(p) of the application returns, with p cached, when no
\* producer it leads to is on a cycle.  When p is on a cycle of box.get
\* calls, each creation logic in progress waits for the next producer of the
\* cycle, which is entered again although it is already in progress; no
\* producer of the cycle ever gets a return value or an entry, and the call
\* ends only when the engine's stack is exhausted, by an exception that
\* reaches the application.
C20_CycleNeverCompletes ==
  /\ \A p \in {q \in Producers : Acyclic(q)} :
       (stack # <<>> /\ stack[1].p = p)
         ~> (stack = <<>> /\ ev.k = "ret" /\ ev.p = p /\ Has(ev.b, p))
  /\ \A p \in {q \in Producers : OnCycle(q)} :
       (stack # <<>> /\ stack[1].p = p)
         ~> (stack = <<>> /\ ev.k = "throw" /\ <<"get", p>> \in ev.unw)
  /\ [](\A b \in boxes, p \in app :
          OnCycle(p) =>
            /\ ~Has(b, p) /\ first[b][p] = None
            /\ ~(ev.k = "ret" /\ ev.p = p)
            /\ runs[b][p].get = fails[b][p].get + InProg(b, p, "get"))
  /\ [](\A n \in 1..(Len(stack) - 1) :
          /\ stack[n].pc <= Len(stack[n].prog)
          /\ stack[n + 1].p = stack[n].prog[stack[n].pc].q)
  /\ []((/\ Running /\ Cur.op = "get" /\ Len(stack) < MaxDepth
         /\ InProg(Top.b, Cur.q, "get") > 0) =>
          ENABLED (StepGet /\ Len(stack') = Len(stack) + 1))

\* box.get(X) ended in the engine's exception with X in progress more than
\* once; S, which X resolved first, is cached, X and Y are not, and a
\* box.get(A) before it had returned normally.
C20_Witness ==
  /\ ev.k = "throw" /\ stack = <<>> /\ OnCycle(ev.p)
  /\ Cardinality(ev.unw) >= 2
  /\ fails[ev.b][ev.p].get >= 2
  /\ \A p \in app : OnCycle(p) <=> ~Has(ev.b, p)
  /\ \E p \in app : Acyclic(p) /\ HasInit(p) /\ Built(ev.b, p)

\* ------------------------------------------- calls of Box.get that overlap
\* The engine runs one call at a time, so a second box.get(p) can only come
\* between the cache.has and the cache.set of a first one when creation
\* logic that the first one runs makes it.
InitRace == InitWith({1}, {{"S", "R"}})

\* The creation logic on top decides to call box.get(q).
StepReenter ==
  /\ Running
  /\ Cur.op = "maybe"
  /\ Len(stack) < MaxDepth
  /\ BoxGet(Top.b, Cur.q)

\* The creation logic on top decides not to.
StepDecline ==
  /\ Running
  /\ Cur.op = "maybe"
  /\ stack' = [stack EXCEPT ![Len(stack)].pc = @ + 1]
  /\ ev' = Event("pass", "", Top.b, Top.p, None, Len(stack), FALSE, cache[Top.b])
  /\ UNCHANGED <<app, boxes, cache, heap>>
  /\ UNCHANGED ghosts

NextRace ==
  \/ \E b \in boxes, p \in app : TopGet(b, p)
  \/ \E b \in boxes, p \in app : TopNew(b, p)
  \/ StepReenter
  \/ StepDecline
  \/ GetReturn
  \/ NewReturn

\* An application with a producer that can fetch itself.
SpecRace == InitRace /\ [][NextRace]_vars

\* The creation logic of p may call box.get(p).
MayReenter(p) ==
  \E i \in DOMAIN InitBody(p) :
    InitBody(p)[i].op = "maybe" /\ InitBody(p)[i].q = p

\* The executions of p's creation logic that box.get has run to completion.
GetDone(b, p) == runs[b][p].get - fails[b][p].get - InProg(b, p, "get")

\* C21: a box.get(p) that constructs found no entry when it checked and
\* stores what it built when it returns, without looking again.  When no
\* other box.get(p) came between its check and its store it is the only one
\* that ever constructs; when one did, both found no entry, the creation
\* logic has run to completion once for each, each caller was handed an
\* instance of its own, and the entry is the instance stored last.  Only a
\* producer whose box.get calls can overlap is constructed more than once.
C21_OverlapConstructsTwice ==
  /\ \A b \in boxes, p \in app : GetDone(b, p) > 1 => MayReenter(p)
  /\ \A i \in DOMAIN stack, j \in DOMAIN stack :
       (/\ i < j /\ stack[i].kind = "get" /\ stack[j].kind = "get"
        /\ stack[i].p = stack[j].p /\ stack[i].b = stack[j].b) =>
          /\ stack[i].p \notin DOMAIN stack[i].pre
          /\ stack[j].p \notin DOMAIN stack[j].pre
  /\ (ev.k = "ret" /\ ev.op = "get" /\ ~ev.hit) =>
       /\ ev.p \notin DOMAIN ev.pre
       /\ ev.v = Inst(Len(heap)) /\ heap[Len(heap)].cls = ev.p
       /\ cache[ev.b][ev.p] = ev.v
       /\ first[ev.b][ev.p] = ev.v <=> GetDone(ev.b, ev.p) = 1
       /\ first[ev.b][ev.p] # ev.v =>
            /\ IsInst(first[ev.b][ev.p])
            /\ heap[first[ev.b][ev.p][2]].cls = ev.p
            /\ GetDone(ev.b, ev.p) >= 2

\* The application's box.get(R) returned an instance other than the one the
\* box.get(R) made by R's creation logic had returned and cached meanwhile:
\* the logic ran twice and the entry is now the second instance.
C21_Witness ==
  /\ ev.k = "ret" /\ ev.op = "get" /\ ~ev.hit /\ ev.d = 0
  /\ runs[ev.b][ev.p].get = 2 /\ calls[ev.b][ev.p] = 0
  /\ IsInst(first[ev.b][ev.p]) /\ first[ev.b][ev.p] # ev.v
  /\ heap[ev.v[2]].args = <<first[ev.b][ev.p]>>
  /\ cache[ev.b][ev.p] = ev.v

\* C22: Box.mock(b, q, V) reaches no instance that exists.  A cached
\* instance of p that resolved q by box.get before the override still holds
\* the instance of q that the override replaced, which is no longer the
\* entry of q; box.get(p) keeps returning that same instance of p while
\* box.get(q) returns V; an instance of p that box.get constructs after the
\* override holds V.
C22_OverrideNotRetroactive ==
  /\ \A b \in boxes, p \in app :
       /\ (lastMock[b][p] = None /\ IsGetRet(ev, b, p)) => ev.v = first[b][p]
       /\ \A i \in GetDeps(p) :
            LET q == InitBody(p)[i].q IN
              lastMock[b][q] # None =>
                /\ (IsGetRet(ev, b, q) /\ ev.hit) => ev.v = lastMock[b][q]
                /\ (Built(b, p) /\ IsInst(Held(b, p, i))) =>
                     /\ Held(b, p, i) \in repl[b][q]
                     /\ cache[b][q] = lastMock[b][q]
                     /\ cache[b][q] # Held(b, p, i)
                /\ (IsGetRet(ev, b, p) /\ ~ev.hit) =>
                     heap[ev.v[2]].args[ArgIx(p, i)] = lastMock[b][q]

\* After Box.mock replaced the cached SharedDependency, box.get(ClassA)
\* returned the ClassA cached before, still holding the replaced instance,
\* while the ClassB constructed after the override holds the mock.
C22_Witness ==
  /\ ev.k = "ret" /\ ev.op = "get" /\ ev.hit /\ ev.d = 0
  /\ GetDeps(ev.p) # {} /\ Built(ev.b, ev.p) /\ ev.v = first[ev.b][ev.p]
  /\ LET q == InitBody(ev.p)[1].q IN
       /\ Held(ev.b, ev.p, 1) \in repl[ev.b][q]
       /\ IsMock(cache[ev.b][q])
       /\ \E p2 \in app :
            /\ p2 # ev.p /\ Built(ev.b, p2) /\ 1 \in GetDeps(p2)
            /\ InitBody(p2)[1].q = q
            /\ Held(ev.b, p2, 1) = cache[ev.b][q]

\* The producers p's creation logic has resolved by box.get when it reaches
\* a point where it can throw.
DepsBeforeFail(p) ==
  {InitBody(p)[i].q :
     i \in {j \in GetDeps(p) :
              \E k \in DOMAIN InitBody(p) : k > j /\ InitBody(p)[k].op = "fail"}}

\* C23: when creation logic of p throws under box.get(p), p has no entry and
\* every producer the logic had resolved by box.get before still has its
\* entry; when box.get(p) is called again, the creation logic of p that runs
\* again gets those producers from the cache: their creation logic is not
\* run again, and the value is the one resolved the first time unless it was
\* overridden.
C23_FailureKeepsDependencies ==
  /\ ev.k = "throw" =>
       /\ \A u \in ev.unw : u[1] = "get" => ~Has(ev.b, u[2])
       /\ \A q \in DepsBeforeFail(ev.p) : Has(ev.b, q)
  /\ \A n \in DOMAIN stack :
       LET f == stack[n] IN
         (f.kind = "get" /\ fails[f.b][f.p].get >= 1) =>
           \A i \in GetDeps(f.p) :
             LET q == InitBody(f.p)[i].q IN
               /\ q \in DepsBeforeFail(f.p) =>
                    /\ Has(f.b, q)
                    /\ runs[f.b][q].get - fails[f.b][q].get <= 1
               /\ f.pc > i => f.args[ArgIx(f.p, i)] = cache[f.b][q]
               /\ (f.pc > i /\ lastMock[f.b][q] = None) =>
                    f.args[ArgIx(f.p, i)] = first[f.b][q]
  /\ (/\ ev.k = "ret" /\ ev.op = "get" /\ ev.d > 0
      /\ Len(stack) >= ev.d /\ stack[ev.d].kind = "get"
      /\ fails[ev.b][stack[ev.d].p].get >= 1
      /\ ev.p \in DepsBeforeFail(stack[ev.d].p)) => ev.hit

\* box.get(F) threw after F had resolved A; called again, F's creation
\* logic got the cached A from box.get(A), whose logic has run once.
C23_Witness ==
  /\ ev.k = "ret" /\ ev.op = "get" /\ ev.hit /\ ev.d = 1 /\ IsInst(ev.v)
  /\ stack # <<>> /\ stack[1].kind = "get"
  /\ fails[ev.b][stack[1].p].get = 1 /\ runs[ev.b][stack[1].p].get = 2
  /\ ev.p \in DepsBeforeFail(stack[1].p)
  /\ runs[ev.b][ev.p].get = 1 /\ fails[ev.b][ev.p].get = 0
  /\ ~Has(ev.b, stack[1].p)

\* ------------------------------------------------- two boxes, every call
\* The constructor list the application gives its builders here.
IsoLists == {<<"A", "S">>}

InitIso == InitWith({1, 2}, {{"S", "A"}, {"S", "M"}})

NextIso ==
  \/ \E b \in boxes, p \in app : TopGet(b, p)
  \/ \E b \in boxes, p \in app : TopMock(b, p)
  \/ \E b \in boxes, t \in Targets, deps \in IsoLists, mode \in {"get", "new"} :
       TopFor(b, t, deps, mode)
  \/ StepGet
  \/ StepNew
  \/ StepMock
  \/ GetReturn
  \/ NewReturn
  \/ ForReturn

\* An application that fetches, overrides and builds on two boxes.
SpecIso == InitIso /\ [][NextIso]_vars

\* C24: every step belongs to a call on one box and leaves the Map of every
\* other box, and what has run there, as it was; the instances two boxes
\* have constructed and cached for the same producer are two objects, and
\* in each box that has not overridden the producer and holds its entry the
\* creation logic has run once for box.get, resolving its dependencies in
\* that same box.
C24_BoxesIsolated ==
  /\ [](\A p \in app :
          /\ \A b \in boxes, c \in boxes :
               (b # c /\ Built(b, p) /\ Built(c, p)) => cache[b][p] # cache[c][p]
          /\ \A b \in boxes :
               (Has(b, p) /\ lastMock[b][p] = None) =>
                 /\ runs[b][p].get = 1
                 /\ Built(b, p)
                 /\ \A i \in GetDeps(p) :
                      /\ Has(b, InitBody(p)[i].q)
                      /\ lastMock[b][InitBody(p)[i].q] = None =>
                           Held(b, p, i) = cache[b][InitBody(p)[i].q])
  /\ [][\A b \in boxes :
          b # ev'.b =>
            /\ cache'[b] = cache[b]
            /\ runs'[b] = runs[b]
            /\ lastMock'[b] = lastMock[b]
            /\ first'[b] = first[b]]_vars

\* The first box has its SharedDependency overridden and a ClassA built
\* around the mock; box.get(ClassA) on the second box then constructed that
\* box's own SharedDependency and ClassA.
C24_Witness ==
  /\ ev.k = "ret" /\ ev.op = "get" /\ ~ev.hit /\ ev.b = 2 /\ GetDeps(ev.p) # {}
  /\ Built(1, ev.p) /\ Built(2, ev.p) /\ cache[1][ev.p] # cache[2][ev.p]
  /\ LET q == InitBody(ev.p)[1].q IN
       /\ IsMock(cache[1][q]) /\ Held(1, ev.p, 1) = cache[1][q]
       /\ Built(2, q) /\ Held(2, ev.p, 1) = cache[2][q]
       /\ lastMock[2][q] = None

\* C25: a step that is a Box.mock(b, p, V) makes the entry of p in b equal
\* to V and changes nothing else: every other entry of b and the whole Map
\* of every other box are as before, no creation logic is started or ended,
\* no object is constructed, and the caller goes on where it was.
C25_OverrideFrame ==
  [][ev'.k = "mock" =>
       /\ cache'[ev'.b] = MapSet(cache[ev'.b], ev'.p, ev'.v)
       /\ \A q \in DOMAIN cache[ev'.b] :
            q # ev'.p => cache'[ev'.b][q] = cache[ev'.b][q]
       /\ DOMAIN cache'[ev'.b] = DOMAIN cache[ev'.b] \cup {ev'.p}
       /\ \A c \in boxes : c # ev'.b => cache'[c] = cache[c]
       /\ runs' = runs /\ calls' = calls /\ fails' = fails
       /\ heap' = heap
       /\ Len(stack') = Len(stack)
       /\ \A n \in DOMAIN stack :
            /\ stack'[n].p = stack[n].p /\ stack'[n].kind = stack[n].kind
            /\ stack'[n].args = stack[n].args]_vars

\* Box.mock overrode a producer on a box that holds another producer's
\* constructed instance, while the other box holds its own constructed
\* instance of the overridden producer.
C25_Witness ==
  /\ ev.k = "mock" /\ cache[ev.b][ev.p] = ev.v
  /\ \E q \in app : q # ev.p /\ Has(ev.b, q) /\ IsInst(cache[ev.b][q])
                    /\ q \in DOMAIN ev.pre /\ ev.pre[q] = cache[ev.b][q]
  /\ \E c \in boxes : c # ev.b /\ Has(c, ev.p) /\ IsInst(cache[c][ev.p])
====
